---- MODULE Spec2Model ----
(***************************************************************************)
(* rustcast: an Icecast-compatible relay.  A SOURCE request claims a       *)
(* mountpoint in the registry (server.rs), authenticates through the       *)
(* stream_start hook, and runs the transcoding loop that publishes MP3     *)
(* frames through a lossy fan-out channel (fanout.rs).  A GET request      *)
(* looks the mountpoint up and either subscribes to the channel (mp3) or   *)
(* snapshots the metadata (json).                                          *)
(*                                                                         *)
(* Every HTTP request runs on its own thread (server.rs run).  A step of   *)
(* the model is one critical section or one thread-local stretch of code   *)
(* between two accesses to shared state.                                   *)
(***************************************************************************)
EXTENDS Integers, Sequences, FiniteSets, TLC

(* ------------------------------ bounds -------------------------------- *)

\* SOURCE request threads; each performs one request.
NumSources == 2
\* GET request threads; each performs one request.
NumListeners == 2
\* Reads of the decoder that yield a packet (Audio, Metadata, BadPacket).
MaxReads == 3
\* Capacity of each subscriber queue.  Stream::new passes 16
\* (server.rs:141); the channel takes any capacity (fanout.rs:13).
BufferSize == 1

\* GET request threads of the full specification.
NumClients == 1

Sources == 1..NumSources
Clients == 1..NumClients
Listeners == 1..NumListeners
\* The mountpoint path the requests name.
Mounts == {"/live"}
\* The mountpoint paths of the registry specification.
AllMounts == {"/live", "/other"}

(* ------------------------------- state -------------------------------- *)

VARIABLES
    streams,     \* Rustcast.streams: mountpoint -> StreamEntry (or absent)
    pc,          \* position of each SOURCE thread in handle_source
    mount,       \* the mountpoint each SOURCE thread asked for
    resp,        \* HTTP status sent to the source (0: none yet)
    exit,        \* how the source session left handle_source
    sawEntry,    \* history: the entry start_stream found at its claim
    nread,       \* packets the session has read from its decoder
    audioLog,    \* history: PCM packets of the Audio events read
    published,   \* history: frames handed to Stream::publish
    dump,        \* the session's dump file: frames written
    metadata,    \* Stream.metadata
    txs,         \* Channel.txs of the session's Stream: Vec of senders
    dead,        \* publish's local dead_txs between its two phases
    poisoned,    \* Channel.txs lock poisoned by a panic under it
    sendOk,      \* history: receivers whose try_send succeeded, last publish
    sendFail,    \* history: receivers whose try_send failed, last publish
    lpc,         \* position of each GET thread in handle_client
    lfmt,        \* RequestFormat of the GET
    lstream,     \* the Arc<Stream> the GET thread holds (0: none)
    lsaw,        \* history: the entry get_stream returned to the GET
    lresp,       \* HTTP status sent to the listener (0: none yet)
    lexit,       \* how the GET thread left handle_client
    ljson,       \* the metadata snapshot of a json GET
    queue,       \* the sync_channel buffer of the listener's Receiver
    received,    \* history: frames recv() returned to the listener
    subAt,       \* history: frames published when subscribe() returned
    everFull,    \* history: the listener's queue was full at some publish
    lastMeta,    \* history: the record of the last Metadata event read
    lmethod,     \* HTTP method of the request the thread serves
    headers,     \* the headers of the SOURCE request
    password,    \* the password handle_source passes to start_stream
    lastEvent,   \* history: the result of the last read of the decoder
    hookResult,  \* history: what hooks::stream_start returned to the session
    regLock,     \* Rustcast.streams lock: the SOURCE thread holding it between steps
    metaLock,    \* Stream.metadata lock: the GET threads holding it between steps
    endHook,     \* history: what hooks::stream_end returned to the session
    comments,    \* the comment list of the comment header the source sends next
    lurl         \* history: the URL path of the GET request

srcVars == <<pc, mount, resp, exit, sawEntry, nread,
             audioLog, published, dump, metadata, lastMeta, headers,
             password, lastEvent, hookResult, endHook, comments>>
chanVars == <<txs, dead, poisoned, sendOk, sendFail>>
lisVars == <<lpc, lfmt, lstream, lsaw, lresp, lexit,
             ljson, queue, received, subAt, everFull, lmethod, lurl>>
lockVars == <<regLock, metaLock>>
vars == <<streams, srcVars, chanVars, lisVars, lockVars>>

(* --------------------------- StreamEntry ------------------------------ *)

\* No entry for the key in the HashMap.
Absent == [tag |-> "Absent", uuid |-> 0]
\* StreamEntry::Starting
Starting == [tag |-> "Starting", uuid |-> 0]
\* StreamEntry::Live(Arc<Stream>); a Stream is identified by its session.
Live(u) == [tag |-> "Live", uuid |-> u]

\* The encoder output for one PCM packet.
Encode(p) == <<"mp3", p>>

EncodeAll(ps) == [i \in 1..Len(ps) |-> Encode(ps[i])]

Range(f) == {f[i] : i \in DOMAIN f}

IsPrefix(a, b) == Len(a) <= Len(b) /\ SubSeq(b, 1, Len(a)) = a

(* ------------------ server.rs: extract_request_format ----------------- *)

\* The URL paths of the requests: the mountpoints and each of them with
\* one of the two extensions.  Any of these strings can be a registry key.
UrlPaths == {"/live", "/live.mp3", "/live.json", "/other", "/other.mp3", "/other.json"}

\* The text of a path: what precedes its last extension, and that extension.
PathText(path) ==
    CASE path = "/live" -> <<"/live">>
      [] path = "/live.mp3" -> <<"/live", ".mp3">>
      [] path = "/live.json" -> <<"/live", ".json">>
      [] path = "/other" -> <<"/other">>
      [] path = "/other.mp3" -> <<"/other", ".mp3">>
      [] path = "/other.json" -> <<"/other", ".json">>

\* The path with the given text.
PathOf(text) == CHOOSE path \in UrlPaths : PathText(path) = text

\* str::ends_with
EndsWith(path, suffix) ==
    LET text == PathText(path)
    IN  Len(text) > 1 /\ text[Len(text)] = suffix

\* chomp, on a path that ends with the suffix: `&string[0..(len - suffix.len())]`
Chomp(path, suffix) ==
    LET text == PathText(path)
    IN  PathOf(SubSeq(text, 1, Len(text) - 1))

\* The path followed by the suffix.
WithSuffix(path, suffix) == PathOf(Append(PathText(path), suffix))

\* extract_request_format: (format, mountpoint) of a GET path.
ExtractRequestFormat(path) ==
    IF EndsWith(path, ".mp3") THEN <<"Mp3", Chomp(path, ".mp3")>>
    ELSE IF EndsWith(path, ".json") THEN <<"Json", Chomp(path, ".json")>>
    ELSE <<"Mp3", path>>

\* handle_source: `rustcast.start_stream(req.url(), ..)`, the mountpoint
\* of a SOURCE request is its URL path as it is.
SourceMountpoint(path) == path

(* ------------------------------ Metadata ------------------------------ *)

\* Option::None of a metadata field; Some(text) is a positive number.
None == 0

\* Stream::new: Metadata { artist: None, title: None }.
NoMetadata == [artist |-> None, title |-> None]

\* The n-th read's Metadata record when the comment header names both fields.
FullMetadata(n) == [artist |-> n, title |-> n]

\* The n-th read's Metadata records with one field missing from the header.
PartialMetadata(n) == {[artist |-> None, title |-> n], [artist |-> n, title |-> None]}

MetadataMerge(old, new) ==
    [artist |-> IF new.artist = None THEN old.artist ELSE new.artist,
     title |-> IF new.title = None THEN old.title ELSE new.title]

\* `*stream.metadata.write().unwrap() = metadata`: the record is replaced.
MetadataStore(old, new) == new

\* MountpointJson built from the record under one read lock.
MountpointJson(md) == [artist |-> md.artist, title |-> md.title]

(* ------------------------------ locks --------------------------------- *)

\* No thread holds the registry lock between two steps.
NoHolder == 0

HeldThroughHook(s) == s

\* The claim block of start_stream ends, and with it the write guard,
\* before the hook is called.
HeldAfterClaim(s) == NoHolder

\* The block of `let data = { .. }` ends, and with it the read guard,
\* before req.respond.
ReadersAfterSnapshot(readers, l) == readers

(* ------------------------------ Option -------------------------------- *)

\* Option<String> of the password chain: None, and Some(v).
NoPassword == [some |-> FALSE, val |-> <<>>]
Some(v) == [some |-> TRUE, val |-> v]

(* ------------------------------ Init ---------------------------------- *)

\* Rustcast::new: an empty registry; no request has been made.
InitServer ==
    /\ streams = [m \in UrlPaths |-> Absent]
    /\ pc = [s \in Sources |-> "idle"]
    /\ mount = [s \in Sources |-> "none"]
    /\ resp = [s \in Sources |-> 0]
    /\ exit = [s \in Sources |-> "none"]
    /\ sawEntry = [s \in Sources |-> "none"]
    /\ nread = [s \in Sources |-> 0]
    /\ audioLog = [s \in Sources |-> <<>>]
    /\ published = [s \in Sources |-> <<>>]
    /\ dump = [s \in Sources |-> <<>>]
    /\ metadata = [s \in Sources |-> NoMetadata]
    /\ txs = [s \in Sources |-> <<>>]
    /\ dead = [s \in Sources |-> <<>>]
    /\ poisoned = [s \in Sources |-> FALSE]
    /\ sendOk = [s \in Sources |-> {}]
    /\ sendFail = [s \in Sources |-> {}]
    /\ lpc = [l \in Listeners |-> "idle"]
    /\ lfmt = [l \in Listeners |-> "none"]
    /\ lstream = [l \in Listeners |-> 0]
    /\ lsaw = [l \in Listeners |-> "none"]
    /\ lresp = [l \in Listeners |-> 0]
    /\ lexit = [l \in Listeners |-> "none"]
    /\ ljson = [l \in Listeners |-> NoMetadata]
    /\ queue = [l \in Listeners |-> <<>>]
    /\ received = [l \in Listeners |-> <<>>]
    /\ subAt = [l \in Listeners |-> 0]
    /\ everFull = [l \in Listeners |-> FALSE]
    /\ lastMeta = [s \in Sources |-> NoMetadata]
    /\ lmethod = [l \in Listeners |-> "GET"]
    /\ password = [s \in Sources |-> NoPassword]
    /\ lastEvent = [s \in Sources |-> "none"]
    /\ hookResult = [s \in Sources |-> "none"]
    /\ regLock = NoHolder
    /\ metaLock = [s \in Sources |-> {}]
    /\ endHook = [s \in Sources |-> "none"]
    /\ lurl = [l \in Listeners |-> "none"]

\* Every SOURCE request comes without headers and its Ogg stream with
\* empty comment lists.
Init ==
    /\ InitServer
    /\ headers = [s \in Sources |-> <<>>]
    /\ comments = [s \in Sources |-> <<>>]

(* ------------------ ogg.rs: From<CommentHeader> for Metadata ---------- *)

\* Longest comment list tried.
MaxComments == 3

\* Field names of the comment entries tried: the two the conversion
\* matches, one differing in case only, and another field.
CommentNames == {"ARTIST", "TITLE", "artist", "ALBUM"}

\* Field values of the comment entries tried (None is 0).
CommentValues == {1, 2}

\* `for (name, value) in header.comment_list { match name.as_ref() .. }`:
\* each ARTIST entry assigns artist, each TITLE entry assigns title, any
\* other entry leaves both.
RECURSIVE CommentLoop(_, _)
CommentLoop(list, md) ==
    IF list = <<>> THEN md
    ELSE LET name == Head(list)[1]
             value == Head(list)[2]
         IN  CommentLoop(Tail(list),
                         CASE name = "ARTIST" -> [md EXCEPT !.artist = value]
                           [] name = "TITLE" -> [md EXCEPT !.title = value]
                           [] OTHER -> md)

\* `let mut artist = None; let mut title = None;` .. `Metadata { artist, title }`
MetadataFromCommentHeader(list) == CommentLoop(list, NoMetadata)

(* ------------------- server.rs: password_from_headers ----------------- *)

\* Longest credentials text tried, in bytes.
MaxCreds == 4

\* ':' in ASCII.
Colon == 58
\* The bytes credentials are made of: 'p', 'u', ':' and 0xFF, a byte no
\* UTF-8 text contains.
CredBytes == {112, 117, Colon, 255}

\* Base64 text is a sequence of symbols: a digit is its value 0..63.
\* The padding symbol '='.
Pad == 64
\* A character outside the base64 alphabet, such as '!'.
BadSymbol == 65

\* What a client sends for the bytes bs: standard base64 with padding.
RECURSIVE Base64Encode(_)
Base64Encode(bs) ==
    IF Len(bs) = 0 THEN <<>>
    ELSE IF Len(bs) = 1 THEN <<bs[1] \div 4, (bs[1] % 4) * 16, Pad, Pad>>
    ELSE IF Len(bs) = 2
         THEN <<bs[1] \div 4, (bs[1] % 4) * 16 + bs[2] \div 16, (bs[2] % 16) * 4, Pad>>
    ELSE <<bs[1] \div 4, (bs[1] % 4) * 16 + bs[2] \div 16,
           (bs[2] % 16) * 4 + bs[3] \div 64, bs[3] % 64>>
         \o Base64Encode(SubSeq(bs, 4, Len(bs)))

\* The text is whole groups of four symbols of the alphabet, padded only
\* at the end of the last group.
ValidBase64(tok) ==
    /\ Len(tok) % 4 = 0
    /\ \A i \in 1..Len(tok) :
          /\ tok[i] <= Pad
          /\ tok[i] = Pad => /\ i >= Len(tok) - 1
                              /\ tok[Len(tok)] = Pad

RECURSIVE DecodeGroups(_)
DecodeGroups(tok) ==
    IF tok = <<>> THEN <<>>
    ELSE LET a == tok[1]
             b == tok[2]
             c == tok[3]
             d == tok[4]
             first == a * 4 + b \div 16
             second == (b % 16) * 16 + c \div 4
             third == (c % 4) * 64 + d
         IN  (IF c = Pad THEN <<first>>
              ELSE IF d = Pad THEN <<first, second>>
              ELSE <<first, second, third>>)
             \o DecodeGroups(SubSeq(tok, 5, Len(tok)))

\* base64::decode(basic).ok()
Base64Decode(tok) == IF ValidBase64(tok) THEN Some(DecodeGroups(tok)) ELSE NoPassword

\* String::from_utf8(bytes).ok(), for bytes of CredBytes: ASCII is
\* UTF-8, 0xFF never is.
FromUtf8(bytes) ==
    IF \A i \in 1..Len(bytes) : bytes[i] < 128 THEN Some(bytes) ELSE NoPassword

\* str::split: the pieces of the text between the separators.
RECURSIVE Split(_, _)
Split(str, sep) ==
    IF \A i \in 1..Len(str) : str[i] # sep THEN <<str>>
    ELSE LET i == CHOOSE k \in 1..Len(str) :
                      str[k] = sep /\ \A j \in 1..(k - 1) : str[j] # sep
         IN  <<SubSeq(str, 1, i - 1)>> \o Split(SubSeq(str, i + 1, Len(str)), sep)

\* Iterator::nth, counting from 0.
Nth(it, k) == IF k < Len(it) THEN Some(it[k + 1]) ELSE NoPassword

\* header.field.equiv("Authorization"): ASCII case is ignored.
IsAuthorization(field) == field \in {"Authorization", "authorization"}

\* The filter and filter_map: the word after "Basic" of every
\* Authorization header that has one.  A header value is its
\* space-separated words: the first one (scheme) and the others (params).
BasicTokens(hs) ==
    LET basic == SelectSeq(hs, LAMBDA h : /\ IsAuthorization(h.field)
                                          /\ h.scheme = "Basic"
                                          /\ h.params # <<>>)
    IN  [i \in 1..Len(basic) |-> basic[i].params[1]]

\* The chain up to String::from_utf8: the first token, decoded.
DecodedCredentials(hs) ==
    LET first == Nth(BasicTokens(hs), 0)
        bytes == IF first.some THEN Base64Decode(first.val) ELSE NoPassword
    IN  IF bytes.some THEN FromUtf8(bytes.val) ELSE NoPassword

\* creds.split(":").nth(1)
SecondPiece(creds) == Nth(Split(creds, Colon), 1)

PasswordFromHeaders(hs) ==
    LET creds == DecodedCredentials(hs)
    IN  IF creds.some THEN SecondPiece(creds.val) ELSE NoPassword

(* ------------------- server.rs: Rustcast::start_stream ---------------- *)

ClaimRefusesLiveOnly(entry) == entry.tag = "Live"

\* `if let Some(_) = streams.get(mountpoint)`: any entry refuses the claim.
ClaimRefuses(entry) == entry.tag # "Absent"

ClaimStreamsDroppingOnRefusal(reg, m) ==
    IF ClaimRefuses(reg[m]) THEN [reg EXCEPT ![m] = Absent]
    ELSE [reg EXCEPT ![m] = Starting]

\* The registry after the claim block, run under the write lock.
ClaimStreams(reg, m) ==
    IF ClaimRefuses(reg[m]) THEN reg ELSE [reg EXCEPT ![m] = Starting]

GuardDropLeak(reg, m) == reg

GuardDropAll(reg, m) == [k \in DOMAIN reg |-> Absent]

\* StreamSource::drop: remove the mountpoint's entry, whatever it is.
GuardDrop(reg, m) == [reg EXCEPT ![m] = Absent]

\* A source session that holds a StreamSource guard (or is between the
\* claim and the guard's construction).
PastClaim(s) == pc[s] \in {"hook", "promote", "setup", "loop", "remove", "end", "release"}

\* handle_source extracts the password, then start_stream, first block:
\* claim the mountpoint or fail with AlreadyLive; handle_source answers
\* AlreadyLive with 409 and returns.
Claim(s, m) ==
    /\ pc[s] = "idle"
    /\ regLock = NoHolder
    /\ regLock' = HeldAfterClaim(s)
    /\ mount' = [mount EXCEPT ![s] = m]
    /\ sawEntry' = [sawEntry EXCEPT ![s] = streams[m].tag]
    /\ streams' = ClaimStreams(streams, m)
    /\ IF ClaimRefuses(streams[m])
       THEN /\ pc' = [pc EXCEPT ![s] = "done"]
            /\ resp' = [resp EXCEPT ![s] = 409]
            /\ exit' = [exit EXCEPT ![s] = "AlreadyLive"]
       ELSE /\ pc' = [pc EXCEPT ![s] = "hook"]
            /\ UNCHANGED <<resp, exit>>
    /\ password' = [password EXCEPT ![s] = PasswordFromHeaders(headers[s])]
    /\ UNCHANGED <<comments, endHook, metaLock, hookResult, lastEvent, headers, lastMeta, nread,
                   audioLog, published, dump, metadata, chanVars, lisVars>>

\* What hooks::stream_start returns: Ok(Ok) (also when no hook is
\* configured), Ok(Reject), or Err(e).
HookResults == {"Ok", "Reject", "Error"}

StartStreamMatchLenient(r) ==
    CASE r = "Reject" -> "Rejected"
      [] OTHER -> "promote"

\* `match hooks::stream_start(..)`: go on to the promotion, or return
\* Err(Rejected) or Err(Hook(e)).
StartStreamMatch(r) ==
    CASE r = "Ok" -> "promote"
      [] r = "Reject" -> "Rejected"
      [] r = "Error" -> "Hook"

\* The hook call returns r to start_stream; on an error return the guard
\* is dropped next.
HookReturn(s, r) ==
    LET arm == StartStreamMatch(r)
    IN  /\ pc[s] = "hook"
        /\ hookResult' = [hookResult EXCEPT ![s] = r]
        /\ pc' = [pc EXCEPT ![s] = IF arm = "promote" THEN "promote" ELSE "release"]
        /\ exit' = [exit EXCEPT ![s] =
                      IF arm = "promote" THEN @
                      ELSE IF arm = "Rejected" THEN "Reject" ELSE "HookErr"]
        /\ UNCHANGED <<comments, endHook, metaLock, regLock, lastEvent, password, headers,
                       lastMeta, streams, mount, resp, sawEntry, nread, audioLog,
                       published, dump, metadata, chanVars, lisVars>>

\* hooks::stream_start answered Ok (or no hook is configured).
HookOk(s) == HookReturn(s, "Ok")

\* hooks::stream_start answered {"ok": false}: start_stream returns Rejected.
HookReject(s) == HookReturn(s, "Reject")

\* hooks::stream_start failed in transport or status: start_stream returns Hook(e).
HookFail(s) == HookReturn(s, "Error")

\* start_stream, last block: replace the entry by Live(stream).  get_mut
\* on a missing key panics (expect).
StreamOfFirstSession(s) == 1

\* `Arc::new(Stream::new())`: every start_stream makes a Stream of its
\* own, with a channel, a metadata record and a uuid of its own.  The
\* Stream is named by its session.
StreamNew(s) == s

Promote(s) ==
    /\ pc[s] = "promote"
    /\ regLock = NoHolder
    /\ IF streams[mount[s]].tag = "Absent"
       THEN /\ pc' = [pc EXCEPT ![s] = "release"]
            /\ exit' = [exit EXCEPT ![s] = "PromotePanic"]
            /\ UNCHANGED streams
       ELSE /\ streams' = [streams EXCEPT ![mount[s]] = Live(StreamNew(s))]
            /\ pc' = [pc EXCEPT ![s] = "setup"]
            /\ UNCHANGED exit
    /\ UNCHANGED <<comments, endHook, metaLock, regLock, hookResult, lastEvent, password, headers,
                   lastMeta, mount, resp, sawEntry, nread, audioLog, published, dump,
                   metadata, chanVars, lisVars>>

\* The guard goes out of scope: on return from start_stream with an error,
\* on return from handle_source, or while a panic unwinds.  The 403 / 500
\* of a failed start is sent after start_stream has returned.
DropGuard(s) ==
    /\ pc[s] = "release"
    /\ regLock = NoHolder
    /\ streams' = GuardDrop(streams, mount[s])
    /\ pc' = [pc EXCEPT ![s] = "done"]
    /\ resp' = [resp EXCEPT ![s] =
                  IF exit[s] = "Reject" THEN 403
                  ELSE IF exit[s] = "HookErr" THEN 500 ELSE @]
    /\ UNCHANGED <<comments, endHook, metaLock, regLock, hookResult, lastEvent, password, headers,
                   lastMeta, mount, exit, sawEntry, nread, audioLog, published, dump,
                   metadata, chanVars, lisVars>>

(* ------------------------ fanout.rs: Channel -------------------------- *)

\* The listener's Receiver exists: from subscribe() until handle_client returns.
RxAlive(l) == lpc[l] = "recv"

\* The listener's SyncSender exists: it sits in the Vec of its Stream, which
\* the listener's own Arc<Stream> keeps alive.
SenderAlive(l) == lstream[l] # 0 /\ l \in Range(txs[lstream[l]])

\* SyncSender::try_send succeeds unless the buffer is full or the
\* Receiver has been dropped.
TrySend(q, rxAlive) == rxAlive /\ Len(q) < BufferSize

\* publish, first phase: the indices (from 0) whose try_send failed, ascending.
DeadIndices(v) ==
    SelectSeq([i \in 1..Len(v) |-> i - 1],
              LAMBDA i : ~TrySend(queue[v[i + 1]], RxAlive(v[i + 1])))

SwapRemoveKeep(v, i) == v

\* Vec::swap_remove(i), for i < len: the last element takes the place of
\* the removed one.
SwapRemove(v, i) ==
    LET n == Len(v)
    IN  [k \in 1..(n - 1) |-> IF k = i + 1 THEN v[n] ELSE v[k]]

\* publish, second phase: swap_remove each collected index in turn;
\* swap_remove panics on an index out of bounds.
RECURSIVE RemoveDead(_, _)
RemoveDead(v, d) ==
    IF d = <<>> THEN [txs |-> v, panic |-> FALSE]
    ELSE IF Head(d) >= Len(v) THEN [txs |-> v, panic |-> TRUE]
    ELSE RemoveDead(SwapRemove(v, Head(d)), Tail(d))

PushFront(v, l) == <<l>> \o v

\* subscribe: Vec::push of the new sender.
Push(v, l) == Append(v, l)

\* Channel::publish up to the release of the read lock: try_send to every
\* sender in order, collecting the failures.  The write lock that subscribe
\* needs keeps the Vec fixed meanwhile, and a recv in between two try_sends
\* touches one queue only, so the phase is one step.
PublishSend(s, frame) ==
    LET v == txs[s]
        ok == {l \in Range(v) : TrySend(queue[l], RxAlive(l))}
        d == DeadIndices(v)
    IN  /\ published' = [published EXCEPT ![s] = Append(@, frame)]
        /\ queue' = [l \in Listeners |-> IF l \in ok THEN Append(queue[l], frame) ELSE queue[l]]
        /\ sendOk' = [sendOk EXCEPT ![s] = ok]
        /\ sendFail' = [sendFail EXCEPT ![s] = Range(v) \ ok]
        /\ everFull' = [l \in Listeners |->
                          everFull[l] \/ (l \in Range(v) /\ RxAlive(l) /\ Len(queue[l]) >= BufferSize)]
        /\ dead' = [dead EXCEPT ![s] = d]
        /\ pc' = [pc EXCEPT ![s] = IF d = <<>> THEN "loop" ELSE "remove"]

\* Channel::publish from `if dead_txs.len() > 0`: remove the dead senders
\* under the write lock.  A panic there poisons the lock and unwinds
\* handle_source.
PublishRemove(s) ==
    /\ pc[s] = "remove"
    /\ LET r == RemoveDead(txs[s], dead[s])
       IN  /\ txs' = [txs EXCEPT ![s] = r.txs]
           /\ poisoned' = [poisoned EXCEPT ![s] = r.panic]
           /\ pc' = [pc EXCEPT ![s] = IF r.panic THEN "release" ELSE "loop"]
           /\ exit' = [exit EXCEPT ![s] = IF r.panic THEN "PublishPanic" ELSE @]
    /\ dead' = [dead EXCEPT ![s] = <<>>]
    /\ UNCHANGED <<comments, endHook, metaLock, regLock, hookResult, lastEvent, password, headers,
                   lastMeta, streams, mount, resp, sawEntry, nread, audioLog, published,
                   dump, metadata, sendOk, sendFail, lisVars>>

(* ------------------------ server.rs: handle_source -------------------- *)

\* File::create of the dump, the upgrade of the request (200), the Ogg
\* headers and the encoder set-up all succeed.
SetupOk(s) ==
    /\ pc[s] = "setup"
    /\ pc' = [pc EXCEPT ![s] = "loop"]
    /\ resp' = [resp EXCEPT ![s] = 200]
    /\ UNCHANGED <<comments, endHook, metaLock, regLock, hookResult, lastEvent, password, headers,
                   lastMeta, streams, mount, exit, sawEntry, nread, audioLog, published,
                   dump, metadata, chanVars, lisVars>>

\* File::create fails: `?` returns the error before the request is answered.
SetupDumpCreateFails(s) ==
    /\ pc[s] = "setup"
    /\ pc' = [pc EXCEPT ![s] = "release"]
    /\ exit' = [exit EXCEPT ![s] = "DumpCreate"]
    /\ UNCHANGED <<comments, endHook, metaLock, regLock, hookResult, lastEvent, password, headers,
                   lastMeta, streams, mount, resp, sawEntry, nread, audioLog, published,
                   dump, metadata, chanVars, lisVars>>

\* OggStream::new or an encoder setter fails after the upgrade: unwrap panics.
SetupPanics(s) ==
    /\ pc[s] = "setup"
    /\ pc' = [pc EXCEPT ![s] = "release"]
    /\ resp' = [resp EXCEPT ![s] = 200]
    /\ exit' = [exit EXCEPT ![s] = "SetupPanic"]
    /\ UNCHANGED <<comments, endHook, metaLock, regLock, hookResult, lastEvent, password, headers,
                   lastMeta, streams, mount, sawEntry, nread, audioLog, published, dump,
                   metadata, chanVars, lisVars>>

ReadEvents == {"Eof", "IoError", "BadPacket", "Audio", "Metadata"}

\* What becomes of an Audio packet after it was read.
AudioOutcomes == {"Ok", "AssertPanic", "EncoderPanic", "DumpWrite"}

MatchReadFallThrough(ev) ==
    CASE ev \in {"IoError", "Eof"} -> "break"
      [] ev = "BadPacket" -> "continue"
      [] OTHER -> "packet"

\* The arms of `match audio_stream.read()`.
MatchRead(ev) ==
    CASE ev \in {"IoError", "Eof"} -> "break"
      [] ev \in {"BadPacket", "Metadata"} -> "continue"
      [] ev = "Audio" -> "packet"

\* lame.encode returned a frame: the assertion and the encoder did not panic.
Encoded(outcome) == outcome \in {"Ok", "DumpWrite"}

WriteErrorIgnored(outcome) == FALSE

\* `stream_dump.write_all(&buff)?`: a failed write returns from handle_source.
WriteErrorReturns(outcome) == outcome = "DumpWrite"

\* One pass of the loop for the read result ev; the n-th packet read is PCM
\* packet n.  A packet goes through the channel-count assertion, the
\* encoder, the dump write and the first phase of publish.
ReadEvent(s, ev, outcome, md) ==
    LET arm == MatchRead(ev)
        n == nread[s] + 1
    IN  /\ pc[s] = "loop"
        /\ arm # "break" => nread[s] < MaxReads
        /\ ev = "Metadata" => metaLock[s] = {}
        /\ nread' = [nread EXCEPT ![s] = IF arm = "break" THEN @ ELSE n]
        /\ audioLog' = [audioLog EXCEPT ![s] = IF ev = "Audio" THEN Append(@, n) ELSE @]
        /\ metadata' = [metadata EXCEPT ![s] =
                          IF ev = "Metadata" THEN MetadataStore(@, md) ELSE @]
        /\ lastMeta' = [lastMeta EXCEPT ![s] = IF ev = "Metadata" THEN md ELSE @]
        /\ lastEvent' = [lastEvent EXCEPT ![s] = ev]
        /\ CASE arm = "break" ->
                  /\ pc' = [pc EXCEPT ![s] = "end"]
                  /\ exit' = [exit EXCEPT ![s] = ev]
                  /\ UNCHANGED <<published, dump, queue, sendOk, sendFail, dead,
                                 everFull>>
             [] arm = "continue" ->
                  UNCHANGED <<pc, exit, published, dump, queue, sendOk, sendFail, dead,
                              everFull>>
             [] arm = "packet" /\ Encoded(outcome) /\ ~WriteErrorReturns(outcome) ->
                  /\ dump' = [dump EXCEPT ![s] =
                                IF outcome = "Ok" THEN Append(@, Encode(n)) ELSE @]
                  /\ PublishSend(s, Encode(n))
                  /\ UNCHANGED exit
             [] arm = "packet" /\ (~Encoded(outcome) \/ WriteErrorReturns(outcome)) ->
                  /\ pc' = [pc EXCEPT ![s] = "release"]
                  /\ exit' = [exit EXCEPT ![s] = outcome]
                  /\ UNCHANGED <<published, dump, queue, sendOk, sendFail, dead,
                                 everFull>>
        /\ UNCHANGED <<lurl, comments, endHook, metaLock, regLock, hookResult, password, headers,
                       lmethod, streams, mount, resp, sawEntry, txs, poisoned, lpc,
                       lfmt, lstream, lsaw, lresp, lexit, ljson, received, subAt>>

ReadEof(s) == ReadEvent(s, "Eof", "Ok", NoMetadata)
ReadIoError(s) == ReadEvent(s, "IoError", "Ok", NoMetadata)
ReadBadPacket(s) == ReadEvent(s, "BadPacket", "Ok", NoMetadata)
ReadMetadata(s) == ReadEvent(s, "Metadata", "Ok", FullMetadata(nread[s] + 1))
ReadMetadataPartial(s) ==
    \E md \in PartialMetadata(nread[s] + 1) : ReadEvent(s, "Metadata", "Ok", md)
\* OggStream::read on a comment header packet: `comment.into()`.
ReadComments(s) ==
    ReadEvent(s, "Metadata", "Ok", MetadataFromCommentHeader(comments[s]))
ReadAudio(s) == ReadEvent(s, "Audio", "Ok", NoMetadata)
ReadAudioAborts(s) ==
    \E o \in AudioOutcomes \ {"Ok"} : ReadEvent(s, "Audio", o, NoMetadata)

SessionResultOfHook(r) == r

\* `match hooks::stream_end(..)`: Ok(()) goes on, Err(e) is logged and
\* goes on; handle_source returns Ok(()) after either.
SessionResult(r) == "Ok"

\* After the loop: the finish line is logged and hooks::stream_end is
\* called and returns r.
StreamEnd(s, r) ==
    /\ pc[s] = "end"
    /\ endHook' = [endHook EXCEPT ![s] = r]
    /\ pc' = [pc EXCEPT ![s] = "release"]
    /\ exit' = [exit EXCEPT ![s] = IF SessionResult(r) = "Ok" THEN @ ELSE "StreamEndErr"]
    /\ UNCHANGED <<comments, metaLock, regLock, hookResult, lastEvent, password, headers,
                   lastMeta, streams, mount, resp, sawEntry, nread, audioLog, published,
                   dump, metadata, chanVars, lisVars>>

\* hooks::stream_end succeeds (or no hook is configured).
StreamEndHook(s) == StreamEnd(s, "Ok")

\* hooks::stream_end fails in transport or status.
StreamEndHookFails(s) == StreamEnd(s, "Error")

(* ------------------------ server.rs: handle_client -------------------- *)

LookupHitAnyEntry(entry) == entry.tag # "Absent"

\* `Some(StreamEntry::Live(stream)) => stream`; Starting and None are a 404.
LookupHit(entry) == entry.tag = "Live"

\* extract_request_format and get_stream: the GET finds a Live stream and
\* keeps a clone of its Arc, or answers 404.
Get(l, path) ==
    LET f == ExtractRequestFormat(path)[1]
        m == ExtractRequestFormat(path)[2]
    IN  /\ lpc[l] = "idle"
        /\ regLock = NoHolder
        /\ lurl' = [lurl EXCEPT ![l] = path]
        /\ lfmt' = [lfmt EXCEPT ![l] = f]
        /\ lsaw' = [lsaw EXCEPT ![l] = streams[m].tag]
        /\ IF LookupHit(streams[m])
           THEN /\ lstream' = [lstream EXCEPT ![l] = streams[m].uuid]
                /\ lpc' = [lpc EXCEPT ![l] = "found"]
                /\ UNCHANGED <<lresp, lexit>>
           ELSE /\ lresp' = [lresp EXCEPT ![l] = 404]
                /\ lexit' = [lexit EXCEPT ![l] = "NotFound"]
                /\ lpc' = [lpc EXCEPT ![l] = "done"]
                /\ UNCHANGED lstream
        /\ UNCHANGED <<metaLock, regLock, lmethod, streams, srcVars, chanVars, ljson, queue,
                       received, subAt, everFull>>

\* GET of the mountpoint with the extension .mp3 and with .json.
GetMp3(l, m) == Get(l, WithSuffix(m, ".mp3"))
GetJson(l, m) == Get(l, WithSuffix(m, ".json"))

\* The write of the response head fails: `?` returns before subscribe.
HeaderWriteFails(l) ==
    /\ lpc[l] = "found" /\ lfmt[l] = "Mp3"
    /\ lpc' = [lpc EXCEPT ![l] = "done"]
    /\ lexit' = [lexit EXCEPT ![l] = "IoError"]
    /\ UNCHANGED <<lurl, metaLock, regLock, lmethod, streams, srcVars, chanVars, lfmt,
                   lstream, lsaw, lresp, ljson, queue, received, subAt, everFull>>

\* The head is written and stream.subscribe() pushes a new sender under the
\* write lock; a poisoned lock panics the listener thread (expect).
Subscribe(l) ==
    /\ lpc[l] = "found" /\ lfmt[l] = "Mp3"
    /\ lresp' = [lresp EXCEPT ![l] = 200]
    /\ IF poisoned[lstream[l]]
       THEN /\ lpc' = [lpc EXCEPT ![l] = "done"]
            /\ lexit' = [lexit EXCEPT ![l] = "Panic"]
            /\ UNCHANGED <<txs, subAt>>
       ELSE /\ txs' = [txs EXCEPT ![lstream[l]] = Push(@, l)]
            /\ subAt' = [subAt EXCEPT ![l] = Len(published[lstream[l]])]
            /\ lpc' = [lpc EXCEPT ![l] = "recv"]
            /\ UNCHANGED lexit
    /\ UNCHANGED <<lurl, metaLock, regLock, lmethod, streams, srcVars, dead, poisoned, sendOk,
                   sendFail, lfmt, lstream, lsaw, ljson, queue, received, everFull>>

\* The json arm, `let data = { .. }`: copy the metadata under its read lock.
JsonSnapshot(l) ==
    /\ lpc[l] = "found" /\ lfmt[l] = "Json"
    /\ metaLock' = [metaLock EXCEPT ![lstream[l]] = ReadersAfterSnapshot(@, l)]
    /\ ljson' = [ljson EXCEPT ![l] = MountpointJson(metadata[lstream[l]])]
    /\ lpc' = [lpc EXCEPT ![l] = "respond"]
    /\ UNCHANGED <<lurl, regLock, lmethod, streams, srcVars, chanVars, lfmt, lstream, lsaw,
                   lresp, lexit, queue, received, subAt, everFull>>

\* The json arm, req.respond: the serialized copy is sent with status 200.
JsonRespond(l) ==
    /\ lpc[l] = "respond"
    /\ lresp' = [lresp EXCEPT ![l] = 200]
    /\ lexit' = [lexit EXCEPT ![l] = "Json"]
    /\ lpc' = [lpc EXCEPT ![l] = "done"]
    /\ UNCHANGED <<lurl, metaLock, regLock, lmethod, streams, srcVars, chanVars, lfmt,
                   lstream, lsaw, ljson, queue, received, subAt, everFull>>

RecvResultEager(q, senderAlive) ==
    IF ~senderAlive THEN "absent" ELSE IF q # <<>> THEN "frame" ELSE "block"

\* mpsc::Receiver::recv: a buffered message is returned even after the
\* sender is gone; with an empty buffer it blocks while a sender exists and
\* fails (None after .ok()) once there is none.
RecvResult(q, senderAlive) ==
    IF q # <<>> THEN "frame" ELSE IF senderAlive THEN "block" ELSE "absent"

\* rx.recv() returns a frame and the socket write succeeds or fails.
RecvFrameThen(l, written) ==
    /\ lpc[l] = "recv"
    /\ RecvResult(queue[l], SenderAlive(l)) = "frame"
    /\ received' = [received EXCEPT ![l] = Append(@, Head(queue[l]))]
    /\ queue' = [queue EXCEPT ![l] = Tail(@)]
    /\ IF written
       THEN UNCHANGED <<lpc, lexit>>
       ELSE /\ lpc' = [lpc EXCEPT ![l] = "done"]
            /\ lexit' = [lexit EXCEPT ![l] = "IoError"]
    /\ UNCHANGED <<lurl, metaLock, regLock, lmethod, streams, srcVars, chanVars, lfmt,
                   lstream, lsaw, lresp, ljson, subAt, everFull>>

RecvFrame(l) == RecvFrameThen(l, TRUE)
RecvFrameWriteFails(l) == RecvFrameThen(l, FALSE)

\* rx.recv() returns None: the while-let loop ends and the listener returns.
RecvEos(l) ==
    /\ lpc[l] = "recv"
    /\ RecvResult(queue[l], SenderAlive(l)) = "absent"
    /\ lpc' = [lpc EXCEPT ![l] = "done"]
    /\ lexit' = [lexit EXCEPT ![l] = "Eos"]
    /\ UNCHANGED <<lurl, metaLock, regLock, lmethod, streams, srcVars, chanVars, lfmt,
                   lstream, lsaw, lresp, ljson, queue, received, subAt, everFull>>

(* ---------------------------- specification --------------------------- *)

(* ------------------------ server.rs: handle_request ------------------- *)

\* Request methods other than SOURCE and GET.
OtherMethods == {"POST", "PUT"}

\* The status of the `_` arm's response.
OtherMethodStatus == 404

\* `match *req.method()`: the handler the request is given to.
HandleRequest(method) ==
    CASE method = "SOURCE" -> "handle_source"
      [] method = "GET" -> "handle_client"
      [] OTHER -> "respond"

\* A request with another method is answered at once with
\* "<h1>Method not allowed</h1>" and the status of the `_` arm.
OtherRequest(l, method) ==
    /\ lpc[l] = "idle"
    /\ HandleRequest(method) = "respond"
    /\ lmethod' = [lmethod EXCEPT ![l] = method]
    /\ lresp' = [lresp EXCEPT ![l] = OtherMethodStatus]
    /\ lexit' = [lexit EXCEPT ![l] = "MethodNotAllowed"]
    /\ lpc' = [lpc EXCEPT ![l] = "done"]
    /\ UNCHANGED <<lurl, metaLock, regLock, streams, srcVars, chanVars, lfmt, lstream, lsaw,
                   ljson, queue, received, subAt, everFull>>

(* ------------------------------ Next ---------------------------------- *)

\* The whole server: SOURCE requests on one mountpoint with complete
\* Metadata records and a stream_end hook that succeeds, and the requests
\* of the Clients.  Partial Metadata records and a failing stream_end
\* hook are in NextSession and NextRegistry.
Next ==
    \/ \E s \in Sources, m \in Mounts : Claim(s, m)
    \/ \E s \in Sources : HookOk(s)
    \/ \E s \in Sources : HookReject(s)
    \/ \E s \in Sources : HookFail(s)
    \/ \E s \in Sources : Promote(s)
    \/ \E s \in Sources : SetupOk(s)
    \/ \E s \in Sources : SetupDumpCreateFails(s)
    \/ \E s \in Sources : SetupPanics(s)
    \/ \E s \in Sources : ReadEof(s)
    \/ \E s \in Sources : ReadIoError(s)
    \/ \E s \in Sources : ReadBadPacket(s)
    \/ \E s \in Sources : ReadMetadata(s)
    \/ \E s \in Sources : ReadAudio(s)
    \/ \E s \in Sources : ReadAudioAborts(s)
    \/ \E s \in Sources : PublishRemove(s)
    \/ \E s \in Sources : StreamEndHook(s)
    \/ \E s \in Sources : DropGuard(s)
    \/ \E l \in Clients, m \in Mounts : GetMp3(l, m)
    \/ \E l \in Clients, m \in Mounts : GetJson(l, m)
    \/ \E l \in Clients : HeaderWriteFails(l)
    \/ \E l \in Clients : Subscribe(l)
    \/ \E l \in Clients : JsonSnapshot(l)
    \/ \E l \in Clients : JsonRespond(l)
    \/ \E l \in Clients : RecvFrame(l)
    \/ \E l \in Clients : RecvFrameWriteFails(l)
    \/ \E l \in Clients : RecvEos(l)
    \/ \E l \in Clients, method \in OtherMethods : OtherRequest(l, method)

Spec == Init /\ [][Next]_vars

\* One SOURCE session of Audio packets and its mp3 listeners: the fan-out
\* channel under every interleaving of publish, subscribe and recv.
Producer == 1

NextFanout ==
    \/ \E m \in Mounts : Claim(Producer, m)
    \/ HookOk(Producer)
    \/ Promote(Producer)
    \/ SetupOk(Producer)
    \/ ReadAudio(Producer)
    \/ ReadEof(Producer)
    \/ PublishRemove(Producer)
    \/ StreamEndHook(Producer)
    \/ DropGuard(Producer)
    \/ \E l \in Listeners, m \in Mounts : GetMp3(l, m)
    \/ \E l \in Listeners : Subscribe(l)
    \/ \E l \in Listeners : RecvFrame(l)
    \/ \E l \in Listeners : RecvFrameWriteFails(l)
    \/ \E l \in Listeners : RecvEos(l)

SpecFanout == Init /\ [][NextFanout]_vars

(* ------------------------------ claims -------------------------------- *)

\* The frames published on the listener's stream after its subscribe returned.
\* One source session with every read result and every way to leave the
\* loop, a second SOURCE request competing for the mountpoint, and GET
\* requests of both formats.
NextSession ==
    \/ \E s \in Sources, m \in Mounts : Claim(s, m)
    \/ HookOk(Producer)
    \/ Promote(Producer)
    \/ SetupOk(Producer)
    \/ ReadEof(Producer)
    \/ ReadIoError(Producer)
    \/ ReadBadPacket(Producer)
    \/ ReadMetadata(Producer)
    \/ ReadMetadataPartial(Producer)
    \/ ReadAudio(Producer)
    \/ ReadAudioAborts(Producer)
    \/ PublishRemove(Producer)
    \/ StreamEndHook(Producer)
    \/ StreamEndHookFails(Producer)
    \/ DropGuard(Producer)
    \/ \E l \in Listeners, m \in Mounts : GetMp3(l, m)
    \/ \E l \in Listeners, m \in Mounts : GetJson(l, m)
    \/ \E l \in Listeners : HeaderWriteFails(l)
    \/ \E l \in Listeners : Subscribe(l)
    \/ \E l \in Listeners : JsonSnapshot(l)
    \/ \E l \in Listeners : JsonRespond(l)
    \/ \E l \in Listeners : RecvFrame(l)
    \/ \E l \in Listeners : RecvFrameWriteFails(l)
    \/ \E l \in Listeners : RecvEos(l)

SpecSession == Init /\ [][NextSession]_vars

\* The registry and the hooks: every SOURCE request goes through claim,
\* stream_start with each of its results, promotion, an empty stream,
\* stream_end and release, on either of two mountpoints, next to GET
\* requests and requests with other methods.
NextRegistry ==
    \/ \E s \in Sources, m \in AllMounts : Claim(s, m)
    \/ \E s \in Sources : HookOk(s)
    \/ \E s \in Sources : HookReject(s)
    \/ \E s \in Sources : HookFail(s)
    \/ \E s \in Sources : Promote(s)
    \/ \E s \in Sources : SetupOk(s)
    \/ \E s \in Sources : SetupDumpCreateFails(s)
    \/ \E s \in Sources : ReadEof(s)
    \/ \E s \in Sources : StreamEndHook(s)
    \/ \E s \in Sources : StreamEndHookFails(s)
    \/ \E s \in Sources : DropGuard(s)
    \/ \E l \in Listeners, m \in AllMounts : GetMp3(l, m)
    \/ \E l \in Listeners, m \in AllMounts : GetJson(l, m)
    \/ \E l \in Listeners : Subscribe(l)
    \/ \E l \in Listeners : JsonSnapshot(l)
    \/ \E l \in Listeners : JsonRespond(l)
    \/ \E l \in Listeners, method \in OtherMethods : OtherRequest(l, method)

SpecRegistry == Init /\ [][NextRegistry]_vars

\* The credentials texts tried: every byte string up to MaxCreds.
Creds == UNION {[1..n -> CredBytes] : n \in 0..MaxCreds}

\* `Authorization: Basic <token>`
BasicHeader(tok) == [field |-> "Authorization", scheme |-> "Basic", params |-> <<tok>>]

\* The header lists tried: no header, a Basic header for every
\* credentials text, tokens that are not base64, other schemes and fields,
\* a Basic header without token, and two Authorization headers.
HeaderInputs ==
    LET up == Base64Encode(<<117, Colon, 112>>)
    IN  {<<>>}
        \cup {<<BasicHeader(Base64Encode(c))>> : c \in Creds}
        \cup {<<BasicHeader(Append(Base64Encode(c), BadSymbol))>> :
                 c \in {c \in Creds : Len(c) <= 1}}
        \cup {<<BasicHeader(<<BadSymbol, BadSymbol, BadSymbol, BadSymbol>>)>>}
        \cup {<<[field |-> f, scheme |-> sch, params |-> ps]>> :
                 f \in {"Authorization", "authorization", "Host"},
                 sch \in {"Basic", "Bearer"},
                 ps \in {<<>>, <<up>>, <<up, up>>}}
        \cup {<<[field |-> "Authorization", scheme |-> sch, params |-> ps], BasicHeader(up)>> :
                 sch \in {"Basic", "Bearer"}, ps \in {<<>>, <<Base64Encode(<<112, Colon, 117>>)>>}}

\* One SOURCE request with any of the header lists.
InitPassword ==
    /\ InitServer
    /\ \E h \in HeaderInputs : headers = [s \in Sources |-> IF s = Producer THEN h ELSE <<>>]
    /\ comments = [s \in Sources |-> <<>>]

NextPassword == \E m \in Mounts : Claim(Producer, m)

SpecPassword == InitPassword /\ [][NextPassword]_vars

\* The comment lists tried: every list of up to MaxComments entries.
CommentLists == UNION {[1..n -> CommentNames \X CommentValues] : n \in 0..MaxComments}

\* One SOURCE session whose Ogg stream carries comment headers with any
\* of the comment lists.
InitComments ==
    /\ InitServer
    /\ headers = [s \in Sources |-> <<>>]
    /\ \E c \in CommentLists : comments = [s \in Sources |-> IF s = Producer THEN c ELSE <<>>]

NextComments ==
    \/ \E m \in Mounts : Claim(Producer, m)
    \/ HookOk(Producer)
    \/ Promote(Producer)
    \/ SetupOk(Producer)
    \/ ReadComments(Producer)
    \/ ReadEof(Producer)
    \/ StreamEndHook(Producer)
    \/ DropGuard(Producer)

SpecComments == InitComments /\ [][NextComments]_vars

\* Source sessions that follow each other on one mountpoint, accepted by
\* the hook, with Audio and Metadata packets, and mp3 and json listeners
\* of either session.
NextReclaim ==
    \/ \E s \in Sources, m \in Mounts : Claim(s, m)
    \/ \E s \in Sources : HookOk(s)
    \/ \E s \in Sources : Promote(s)
    \/ \E s \in Sources : SetupOk(s)
    \/ \E s \in Sources : ReadAudio(s)
    \/ \E s \in Sources : ReadMetadata(s)
    \/ \E s \in Sources : ReadEof(s)
    \/ \E s \in Sources : PublishRemove(s)
    \/ \E s \in Sources : StreamEndHook(s)
    \/ \E s \in Sources : DropGuard(s)
    \/ \E l \in Listeners, m \in Mounts : GetMp3(l, m)
    \/ \E l \in Listeners, m \in Mounts : GetJson(l, m)
    \/ \E l \in Listeners : Subscribe(l)
    \/ \E l \in Listeners : JsonSnapshot(l)
    \/ \E l \in Listeners : JsonRespond(l)
    \/ \E l \in Listeners : RecvFrame(l)
    \/ \E l \in Listeners : RecvEos(l)

SpecReclaim == Init /\ [][NextReclaim]_vars

\* The URL paths that name the mountpoint /live.
LivePaths == {"/live", "/live.mp3", "/live.json"}

\* A SOURCE request with the given URL path.
Source(s, path) == Claim(s, SourceMountpoint(path))

\* SOURCE and GET requests with every path of the mountpoint /live: the
\* registry keys the two handlers use.
NextKeys ==
    \/ \E s \in Sources, path \in LivePaths : Source(s, path)
    \/ \E s \in Sources : HookOk(s)
    \/ \E s \in Sources : Promote(s)
    \/ \E s \in Sources : SetupOk(s)
    \/ \E s \in Sources : ReadEof(s)
    \/ \E s \in Sources : StreamEndHook(s)
    \/ \E s \in Sources : DropGuard(s)
    \/ \E l \in Listeners, path \in LivePaths : Get(l, path)

SpecKeys == Init /\ [][NextKeys]_vars

FramesAfter(l) ==
    IF lstream[l] = 0 THEN <<>>
    ELSE SubSeq(published[lstream[l]], subAt[l] + 1, Len(published[lstream[l]]))

\* publish removed the listener's sender while its Receiver is in use.
Evicted(l) == RxAlive(l) /\ ~SenderAlive(l)

\* A step in which the listener's rx.recv() returns.
RecvStep(l) == lpc[l] = "recv" /\ (received'[l] # received[l] \/ lpc'[l] = "done")

\* C1: once the source session has finished (pipeline exited, guard
\* dropped), a listener in recv() is never left blocked: with its buffer
\* drained, recv() returns absent.
C1_EndOfStreamDelivered ==
    \A l \in Listeners :
        (lpc[l] = "recv" /\ pc[lstream[l]] = "done")
            => RecvResult(queue[l], SenderAlive(l)) # "block"

\* C2: publish never panics, and when it has returned every subscriber
\* whose try_send failed is out of the subscriber set and every subscriber
\* whose try_send succeeded is still in it.
C2_PublishEvictsFull ==
    \A s \in Sources :
        /\ exit[s] # "PublishPanic"
        /\ pc[s] \in {"loop", "end"} =>
              /\ sendFail[s] \cap Range(txs[s]) = {}
              /\ sendOk[s] \subseteq Range(txs[s])

\* C3: a subscriber whose queue was never full at a publish has been handed
\* every frame published since its subscribe returned, whatever happened to
\* the other subscribers.
C3_HealthyReceiveAll ==
    \A l \in Listeners :
        ((lpc[l] = "recv" \/ lexit[l] = "Eos") /\ ~everFull[l])
            => received[l] \o queue[l] = FramesAfter(l)

C3_Witness ==
    \E l, l2 \in Listeners :
        /\ lpc[l] = "recv" /\ ~everFull[l]
        /\ subAt[l] = 1 /\ received[l] = <<Encode(2), Encode(3)>>
        /\ lstream[l2] = lstream[l] /\ subAt[l2] = 0
        /\ everFull[l2] /\ ~SenderAlive(l2)

C5_NextRecvAbsent ==
    [][\A l \in Listeners : (Evicted(l) /\ RecvStep(l)) => lexit'[l] = "Eos"]_vars

\* C5 as amended: an evicted subscriber's recv() returns the frames still
\* buffered, in order, and absent once the buffer is empty.
C5_DrainThenAbsent ==
    [][\A l \in Listeners :
          (Evicted(l) /\ RecvStep(l)) =>
              IF queue[l] # <<>>
              THEN received'[l] = Append(received[l], Head(queue[l])) /\ lexit'[l] # "Eos"
              ELSE received'[l] = received[l] /\ lexit'[l] = "Eos"]_vars

C5_Witness ==
    \E l \in Listeners :
        /\ lexit[l] = "Eos" /\ everFull[l]
        /\ Len(received[l]) = BufferSize
        /\ Len(published[lstream[l]]) > subAt[l] + BufferSize

\* C6: two source sessions past their claim never hold the same
\* mountpoint, and a claim that found an entry (Starting or Live) ended
\* there with AlreadyLive and 409, before any hook call.
C6_MountpointMutex ==
    /\ \A s1, s2 \in Sources :
          (s1 # s2 /\ PastClaim(s1) /\ PastClaim(s2)) => mount[s1] # mount[s2]
    /\ \A s \in Sources :
          sawEntry[s] \in {"Starting", "Live"}
              => (pc[s] = "done" /\ exit[s] = "AlreadyLive" /\ resp[s] = 409)

C6_Witness ==
    \E s1, s2 \in Sources :
        /\ pc[s1] = "hook" /\ mount[s2] = mount[s1]
        /\ sawEntry[s2] = "Starting" /\ resp[s2] = 409

\* C7: a GET that found the entry Starting was answered 404 and holds no
\* stream; a GET that holds a stream found a Live entry of a session whose
\* stream_start hook had answered Ok.
C7_StartingIs404 ==
    \A l \in Listeners :
        /\ lsaw[l] = "Starting" =>
              (lresp[l] = 404 /\ lstream[l] = 0 /\ lpc[l] = "done" /\ subAt[l] = 0)
        /\ lstream[l] # 0 =>
              (lsaw[l] = "Live" /\ pc[lstream[l]] \notin {"idle", "hook", "promote"})

C7_Witness ==
    \E l \in Listeners, s \in Sources :
        /\ lsaw[l] = "Starting" /\ lresp[l] = 404 /\ lexit[l] = "NotFound"
        /\ pc[s] = "loop" /\ streams[mount[s]] = Live(s)

\* C8: a session that claimed its mountpoint and has finished, by whatever
\* exit, left no entry of its own: the mountpoint is absent, or a later
\* session's claim of it has succeeded.
C8_GuaranteedRelease ==
    \A s \in Sources :
        (pc[s] = "done" /\ exit[s] # "AlreadyLive") =>
            /\ streams[mount[s]] # Live(s)
            /\ streams[mount[s]].tag # "Absent" =>
                  \E s2 \in Sources \ {s} :
                      PastClaim(s2) /\ mount[s2] = mount[s] /\ sawEntry[s2] = "Absent"

C8_Witness ==
    \E s, s2 \in Sources :
        /\ pc[s] = "done" /\ exit[s] = "EncoderPanic"
        /\ mount[s2] = mount[s] /\ sawEntry[s2] = "Absent"
        /\ pc[s2] = "done" /\ exit[s2] = "Reject" /\ resp[s2] = 403
        /\ streams[mount[s]] = Absent

\* C9: the step that refuses a SOURCE with AlreadyLive changes nothing but
\* the refused request itself, which is finished: registry, channels, queues
\* and the other sessions are as before.
C9_RejectLeavesUntouched ==
    [][\A s \in Sources :
          (exit[s] = "none" /\ exit'[s] = "AlreadyLive") =>
              /\ streams' = streams /\ streams[mount'[s]].tag # "Absent"
              /\ pc'[s] = "done" /\ resp'[s] = 409
              /\ txs' = txs /\ queue' = queue /\ published' = published
              /\ \A s2 \in Sources \ {s} : pc'[s2] = pc[s2]]_vars

C9_Witness ==
    \E s, s2 \in Sources, l \in Listeners :
        /\ exit[s] = "AlreadyLive" /\ sawEntry[s] = "Live"
        /\ streams[mount[s]] = Live(s2) /\ pc[s2] = "loop"
        /\ lstream[l] = s2 /\ subAt[l] = 0
        /\ received[l] = published[s2] /\ Len(received[l]) = 2

\* C10: the frames published are the encodings of the Audio packets read,
\* in read order, all of them once Eof was read; BadPacket and Metadata
\* publish nothing.
C10_PublishedPerAudio ==
    \A s \in Sources :
        /\ IsPrefix(published[s], EncodeAll(audioLog[s]))
        /\ exit[s] \in {"none", "Eof"} => published[s] = EncodeAll(audioLog[s])

C10_Witness ==
    \E s \in Sources, l \in Listeners :
        /\ exit[s] = "Eof" /\ nread[s] = 3
        /\ audioLog[s] = <<1, 3>> /\ metadata[s] = [artist |-> 2, title |-> 2]
        /\ lstream[l] = s /\ received[l] = <<Encode(1), Encode(3)>>

(* ------------------------------ C11 ----------------------------------- *)

\* C11: the metadata of a Live stream is the record of the most recent
\* Metadata event its session read (both fields absent before the first),
\* a field the newest event lacks is absent whatever came before, and a
\* json GET answers with that whole record, never a mix of two events.
C11_JsonLatestMetadata ==
    /\ [](\A s \in Sources : metadata[s] = lastMeta[s])
    /\ [][\A l \in Listeners :
             /\ lpc[l] = "found" /\ lpc'[l] = "respond" => ljson'[l] = lastMeta[lstream[l]]
             /\ lpc[l] = "respond" => ljson'[l] = ljson[l]]_vars

C11_Witness ==
    \E s \in Sources, l1, l2 \in Listeners :
        /\ lstream[l1] = s /\ lexit[l1] = "Json" /\ ljson[l1] = FullMetadata(1)
        /\ lstream[l2] = s /\ lexit[l2] = "Json"
        /\ ljson[l2] = [artist |-> None, title |-> 2]

(* ------------------------------ C12 ----------------------------------- *)

\* C12: the frames published are a prefix of the frames written to the
\* dump, at most one frame behind; a failed dump write ends the session
\* with that frame unpublished; after Eof or IoError the two are equal.
C12_DumpBeforePublish ==
    \A s \in Sources :
        /\ IsPrefix(published[s], dump[s])
        /\ Len(dump[s]) <= Len(published[s]) + 1
        /\ exit[s] \in {"Eof", "IoError"} => dump[s] = published[s]
        /\ exit[s] = "DumpWrite" =>
              /\ pc[s] \in {"release", "done"}
              /\ Len(published[s]) = Len(audioLog[s]) - 1
              /\ Encode(audioLog[s][Len(audioLog[s])]) \notin Range(published[s])

C12_Witness ==
    \E s \in Sources :
        /\ exit[s] = "DumpWrite" /\ pc[s] = "done"
        /\ audioLog[s] = <<1, 2, 3>>
        /\ dump[s] = <<Encode(1), Encode(2)>> /\ published[s] = dump[s]

(* ------------------------------ C13 ----------------------------------- *)

\* C13: SOURCE requests go to handle_source, GET requests to
\* handle_client, and a request with any other method is answered 405.
C13_OtherMethodIs405 ==
    /\ HandleRequest("SOURCE") = "handle_source"
    /\ HandleRequest("GET") = "handle_client"
    /\ \A l \in Listeners : lexit[l] = "MethodNotAllowed" => lresp[l] = 405

(* ------------------------------ C14 ----------------------------------- *)

AfterFirstColon(creds) ==
    LET i == CHOOSE k \in 1..Len(creds) :
                 creds[k] = Colon /\ \A j \in 1..(k - 1) : creds[j] # Colon
    IN  SubSeq(creds, i + 1, Len(creds))

\* C14: the password handed to start_stream is everything after the
\* first ':' of the decoded credentials, further ':' included; without an
\* Authorization header, with another scheme, with a token that is not
\* base64 or not UTF-8, or without a ':', there is no password.
C14_PasswordAfterFirstColon ==
    \A s \in Sources :
        pc[s] # "idle" =>
            LET creds == DecodedCredentials(headers[s])
            IN  password[s] =
                    IF creds.some /\ (\E i \in 1..Len(creds.val) : creds.val[i] = Colon)
                    THEN Some(AfterFirstColon(creds.val))
                    ELSE NoPassword

(* ------------------------------ C15 ----------------------------------- *)

\* C15: a BadPacket never ends the loop: after it the session is still in
\* the loop, its mountpoint still Live, and the next read can be made.
\* The loop is left only on Eof or IoError, or aborted by an encoder
\* error, a dump write error or a channel-count mismatch.
C15_LoopExitsOnlyAsListed ==
    \A s \in Sources :
        /\ lastEvent[s] = "BadPacket" =>
              /\ pc[s] = "loop" /\ exit[s] = "none"
              /\ streams[mount[s]] = Live(s)
              /\ ENABLED ReadEof(s)
        /\ pc[s] = "end" => lastEvent[s] \in {"Eof", "IoError"} /\ exit[s] = lastEvent[s]
        /\ lastEvent[s] # "none" /\ pc[s] \in {"release", "done"} =>
              \/ exit[s] \in {"Eof", "IoError"} /\ lastEvent[s] = exit[s]
              \/ /\ exit[s] \in {"AssertPanic", "EncoderPanic", "DumpWrite"}
                 /\ lastEvent[s] = "Audio"

(* ------------------------------ C16 ----------------------------------- *)

\* C16: an entry is Live only for a session whose stream_start hook
\* returned Ok; a session the hook rejected or whose hook call failed is
\* never Live, no GET ever gets its stream, and its source is answered
\* 403 (rejected) or 500 (failed).
C16_LiveOnlyAfterHookOk ==
    \A s \in Sources :
        /\ (\E m \in AllMounts : streams[m] = Live(s)) => hookResult[s] = "Ok"
        /\ (\E l \in Listeners : lstream[l] = s) => hookResult[s] = "Ok"
        /\ hookResult[s] \in {"Reject", "Error"} =>
              /\ pc[s] \in {"release", "done"}
              /\ pc[s] = "done" => resp[s] = IF hookResult[s] = "Reject" THEN 403 ELSE 500

C16_Witness ==
    \E s1, s2 \in Sources, l \in Listeners :
        /\ hookResult[s1] = "Reject" /\ pc[s1] = "done" /\ resp[s1] = 403
        /\ hookResult[s2] = "Error" /\ pc[s2] = "done" /\ resp[s2] = 500
        /\ mount[s1] = mount[s2]
        /\ lsaw[l] = "Starting" /\ lresp[l] = 404

(* ------------------------------ C17 ----------------------------------- *)

\* C17: from the claim to the promotion the session's entry is there and
\* is Starting: it is never absent, never Live already, and no other
\* session holds a claim on the mountpoint.
C17_PromoteFindsStarting ==
    \A s \in Sources :
        /\ pc[s] \in {"hook", "promote"} =>
              /\ streams[mount[s]] = Starting
              /\ \A o \in Sources \ {s} : ~(PastClaim(o) /\ mount[o] = mount[s])
        /\ exit[s] # "PromotePanic"

C17_Witness ==
    \E s, o \in Sources, l \in Listeners :
        /\ pc[s] = "promote" /\ streams[mount[s]] = Starting
        /\ o # s /\ mount[o] = mount[s] /\ exit[o] = "AlreadyLive" /\ sawEntry[o] = "Starting"
        /\ lsaw[l] = "Starting"

(* ------------------------------ C18 ----------------------------------- *)

\* C18: after the loop ends on Eof or IoError the stream_end hook is called
\* once, while the session's entry is still Live (a SOURCE request for the
\* mountpoint is refused meanwhile); the entry is removed only after the
\* hook has returned; a failing hook changes neither the removal nor the
\* session's result.
C18_EndHookBeforeRelease ==
    /\ [](\A s \in Sources :
            /\ pc[s] = "end" =>
                  /\ endHook[s] = "none"
                  /\ streams[mount[s]] = Live(s) /\ ClaimRefuses(streams[mount[s]])
            /\ endHook[s] # "none" =>
                  lastEvent[s] \in {"Eof", "IoError"} /\ pc[s] \in {"release", "done"}
            /\ lastEvent[s] \in {"Eof", "IoError"} /\ pc[s] = "release" =>
                  endHook[s] # "none" /\ streams[mount[s]] = Live(s)
            /\ lastEvent[s] \in {"Eof", "IoError"} /\ pc[s] = "done" =>
                  /\ endHook[s] # "none"
                  /\ streams[mount[s]] # Live(s)
                  /\ exit[s] = lastEvent[s])
    /\ [][\A s \in Sources : endHook[s] # "none" => endHook'[s] = endHook[s]]_vars

C18_Witness ==
    \E s, o \in Sources :
        /\ pc[s] = "done" /\ exit[s] = "IoError" /\ endHook[s] = "Error"
        /\ nread[s] = 3 /\ streams[mount[s]] = Absent
        /\ exit[o] = "AlreadyLive" /\ sawEntry[o] = "Live" /\ resp[o] = 409

(* ------------------------------ C19 ----------------------------------- *)

C20_ProducerProgress ==
    \A s \in Sources :
        (\A l \in Listeners : lstream[l] = s => received[l] = <<>> /\ lpc[l] \in {"found", "recv"})
            => /\ pc[s] = "loop" /\ nread[s] < MaxReads => ENABLED ReadAudio(s)
               /\ pc[s] = "remove" => ENABLED PublishRemove(s)
               /\ exit[s] # "PublishPanic"

(* ------------------------------ C21 ----------------------------------- *)

\* C21: with queue capacity BufferSize (Channel::new(16) for a Stream), no
\* subscriber queue ever holds more frames than the capacity; a subscriber
\* with a live receiver whose queue was never full at a publish is still
\* in the subscriber set; and a subscriber that has consumed nothing holds
\* the first publishes up to the capacity and is out of the set once the
\* publish after those is over.
C21_BoundedQueueExactEviction ==
    \A l \in Listeners :
        /\ Len(queue[l]) <= BufferSize
        /\ (lpc[l] = "recv" /\ ~everFull[l]) => SenderAlive(l)
        /\ (lpc[l] = "recv" /\ received[l] = <<>>) =>
              LET n == Len(FramesAfter(l))
              IN  /\ n <= BufferSize => queue[l] = FramesAfter(l) /\ SenderAlive(l)
                  /\ (n > BufferSize /\ pc[lstream[l]] # "remove") =>
                        /\ queue[l] = SubSeq(FramesAfter(l), 1, BufferSize)
                        /\ ~SenderAlive(l)

(* ------------------------------ C22 ----------------------------------- *)

\* C22: a listener whose socket write failed has dropped its Receiver.
\* The next publish fails its try_send on that listener's sender; when the
\* publish of a sender that failed by disconnection (its queue was never
\* full at a publish) is over, the sender is out of the subscriber set,
\* every subscriber whose try_send succeeded is still in it, and the
\* producer is back in its loop.
C22_DroppedReceiverRemoved ==
    [][\A s \in Sources, l \in Listeners :
          /\ (published'[s] # published[s] /\ l \in Range(txs[s]) /\ lexit[l] = "IoError")
                => l \in sendFail'[s] /\ pc'[s] = "remove"
          /\ (pc[s] = "remove" /\ pc'[s] # "remove" /\ l \in sendFail[s] /\ ~everFull[l])
                => /\ l \notin Range(txs'[s])
                   /\ Range(txs[s]) \ sendFail[s] \subseteq Range(txs'[s])
                   /\ pc'[s] = "loop"]_vars

(* ------------------------------ C23 ----------------------------------- *)

\* The value of the first entry of the list with the given name, None
\* when there is none.
FirstNamed(list, name) ==
    LET idx == {i \in 1..Len(list) : list[i][1] = name}
    IN  IF idx = {} THEN None
        ELSE list[CHOOSE i \in idx : \A j \in idx : i <= j][2]

\* C23: the Metadata record converted from a comment list has as artist the
\* value of the first entry named exactly ARTIST and as title the value of
\* the first entry named exactly TITLE; later entries of the same name and
\* all other entries change nothing.
C23_FirstOccurrenceWins ==
    \A s \in Sources :
        lastEvent[s] = "Metadata" =>
            /\ metadata[s].artist = FirstNamed(comments[s], "ARTIST")
            /\ metadata[s].title = FirstNamed(comments[s], "TITLE")

(* ------------------------------ C24 ----------------------------------- *)

\* The mountpoint name of a URL path: the path with a trailing .mp3 or
\* .json extension stripped.
MountpointName(path) == ExtractRequestFormat(path)[2]

\* C24: the registry is keyed by the mountpoint name on both sides: two
\* source sessions past their claim never have paths with the same
\* mountpoint name (SOURCE /m and SOURCE /m.mp3 contend), and a GET whose
\* path has the mountpoint name of a Live session's SOURCE path finds that
\* session's stream, whatever the extensions of the two paths.
C24_RegistryKeyAgreement ==
    /\ [](\A s1, s2 \in Sources :
            (s1 # s2 /\ PastClaim(s1) /\ PastClaim(s2))
                => MountpointName(mount[s1]) # MountpointName(mount[s2]))
    /\ [][\A l \in Listeners, s \in Sources :
            (/\ lpc[l] = "idle" /\ lurl'[l] # "none"
             /\ PastClaim(s) /\ streams[mount[s]] = Live(s)
             /\ MountpointName(lurl'[l]) = MountpointName(mount[s]))
                => lstream'[l] = s /\ lpc'[l] = "found"]_vars

(* ------------------------------ C25 ----------------------------------- *)

\* The session holds its mountpoint with a Live entry.
HoldsLive(s) == pc[s] \in {"setup", "loop", "remove", "end", "release"}

\* C25: sessions that follow each other on a mountpoint share nothing.  A
\* sender in a session's subscriber set belongs to a listener that holds
\* that session's Stream; a frame enters a listener's queue only in a
\* publish of the session whose Stream the listener holds; a json listener
\* reads the metadata of the Stream it holds; and a lookup returns the
\* Stream of the session that holds the mountpoint at that moment, never
\* that of an earlier session.
C25_SessionIsolation ==
    /\ [](\A s \in Sources, l \in Listeners : l \in Range(txs[s]) => lstream[l] = s)
    /\ [][\A l \in Listeners :
            /\ Len(queue'[l]) > Len(queue[l]) =>
                  /\ lstream[l] # 0
                  /\ published'[lstream[l]] = Append(published[lstream[l]], queue'[l][Len(queue'[l])])
                  /\ \A o \in Sources \ {lstream[l]} : published'[o] = published[o]
            /\ (lpc[l] = "found" /\ lpc'[l] = "respond") =>
                  ljson'[l] = MountpointJson(metadata[lstream[l]])
            /\ (lpc[l] = "idle" /\ lpc'[l] = "found") =>
                  /\ HoldsLive(lstream'[l])
                  /\ mount[lstream'[l]] = MountpointName(lurl'[l])]_vars

\* The first session has released the mountpoint and the second holds it;
\* a listener of the first is still connected with all the frames of the
\* first session and nothing else, a listener that came after the re-claim
\* has a frame of the second, whose metadata differs from the first's.
C25_Witness ==
    \E s1, s2 \in Sources, l1, l2 \in Listeners :
        /\ pc[s1] = "done" /\ HoldsLive(s2) /\ mount[s1] = mount[s2]
        /\ lstream[l1] = s1 /\ lpc[l1] = "recv" /\ subAt[l1] = 0
        /\ Len(published[s1]) = 2 /\ received[l1] \o queue[l1] = published[s1]
        /\ lstream[l2] = s2 /\ received[l2] = <<Encode(2)>> /\ published[s2] = <<Encode(2)>>
        /\ metadata[s1] = NoMetadata /\ metadata[s2] # NoMetadata

====
